---- MODULE Spec2Model ----
(***************************************************************************)
(* A model of the connection registry (DatabaseConnectionManager) and of   *)
(* the generation orchestrator (Generators) of sdsdg-lib.                  *)
(*                                                                         *)
(* Strings are sequences of one-character strings, so that strip(), the    *)
(* f-string formatting of the port and the concatenation of the URL are    *)
(* computed as Python computes them.  A configuration is a dictionary,     *)
(* modelled as a record over the seven keys whose value Absent stands for  *)
(* a key the dictionary does not hold.                                     *)
(***************************************************************************)
EXTENDS Integers, Sequences, FiniteSets, TLC

(***************************************************************************)
(* Bounds of the model.                                                    *)
(***************************************************************************)
\* the longest configuration list handed to the constructor
MaxInitConfigs == 1
\* engines created over a run (create_engine calls that succeed)
MaxEngines == 3
\* generate_data calls that reach the history
MaxHistory == 2

\* the rows one table of a generation result holds
MaxRowsPerTable == 2

\* the rows a table of the database holds
MaxStoredRows == 3

(***************************************************************************)
(* Program constants.                                                      *)
(***************************************************************************)
MinPort == 1
MaxPort == 65535
Overhead == 40
MinResponseTokens == 1000
DefaultMaxTokens == 16385

(***************************************************************************)
(* Python values: str, int, and the absence of a key.                      *)
(***************************************************************************)
Str(s) == [t |-> "str", s |-> s, n |-> 0]
Int_(n) == [t |-> "int", s |-> <<>>, n |-> n]
Absent == [t |-> "absent", s |-> <<>>, n |-> 0]

IsStr(v) == v.t = "str"
IsInt(v) == v.t = "int"

\* bool(v): None, "" and 0 are falsy
Truthy(v) ==
    CASE v.t = "absent" -> FALSE
      [] v.t = "str" -> v.s # <<>>
      [] v.t = "int" -> v.n # 0

\* dict.get(key): None for a key the dictionary does not hold
Get(config, key) == config[key]

\* key in dict
Has(config, key) == config[key] # Absent

IsSpace(ch) == ch \in {" ", "\t", "\n"}

RECURSIVE LStrip(_)
LStrip(s) ==
    IF s # <<>> /\ IsSpace(Head(s)) THEN LStrip(Tail(s)) ELSE s

RECURSIVE RStrip(_)
RStrip(s) ==
    IF s # <<>> /\ IsSpace(s[Len(s)]) THEN RStrip(SubSeq(s, 1, Len(s) - 1)) ELSE s

\* str.strip()
Strip(s) == RStrip(LStrip(s))

DigitChar == <<"0", "1", "2", "3", "4", "5", "6", "7", "8", "9">>

RECURSIVE NatToStr(_)
NatToStr(n) ==
    IF n < 10 THEN <<DigitChar[n + 1]>>
    ELSE NatToStr(n \div 10) \o <<DigitChar[(n % 10) + 1]>>

\* str(n) of an int
IntToStr(n) == IF n < 0 THEN <<"-">> \o NatToStr(0 - n) ELSE NatToStr(n)

\* f"{v}" of a value a dictionary holds
Format(v) == IF IsInt(v) THEN IntToStr(v.n) ELSE v.s

(***************************************************************************)
(* The literals of the source.                                             *)
(***************************************************************************)
sqlite == <<"s", "q", "l", "i", "t", "e">>
mysql_pymysql == <<"m", "y", "s", "q", "l", "+", "p", "y", "m", "y", "s", "q", "l">>
postgresql == <<"p", "o", "s", "t", "g", "r", "e", "s", "q", "l">>

SupportedDialects == {sqlite, mysql_pymysql, postgresql}

Keys == {"name", "dialect", "database", "username", "password", "host", "port"}

(***************************************************************************)
(* validate_requirements_keys: the required keys in the order the code     *)
(* lists them, the keys whose value is missing or falsy, then the checks   *)
(* of the values in the order the code makes them.                         *)
(***************************************************************************)
RequiredKeys(config) ==
    IF Get(config, "dialect") = Str(sqlite)
    THEN <<"name", "dialect", "database">>
    ELSE <<"name", "dialect", "database", "username", "password", "host", "port">>

\* key not in config
IsMissingKeyOnly(config, key) == ~Has(config, key)

\* not config.get(key)
IsMissing(config, key) == ~Truthy(Get(config, key))

\* [key for key in keys if not config.get(key)]
RECURSIVE MissingAmong(_, _)
MissingAmong(keys, config) ==
    IF keys = <<>> THEN <<>>
    ELSE (IF IsMissing(config, Head(keys)) THEN <<Head(keys)>> ELSE <<>>)
         \o MissingAmong(Tail(keys), config)

MissingKeys(config) == MissingAmong(RequiredKeys(config), config)

BlankStr(v) == ~IsStr(v) \/ Strip(v.s) = <<>>

\* the field whose value the checks after the missing-key test reject, or "none"
ValueErrorField(config) ==
    LET is_sqlite == Get(config, "dialect") = Str(sqlite) IN
    CASE BlankStr(config["name"]) -> "name"
      [] config["dialect"] \notin {Str(d) : d \in SupportedDialects} -> "dialect"
      [] ~is_sqlite /\ BlankStr(config["host"]) -> "host"
      [] ~is_sqlite /\ ~(IsInt(config["port"])
                         /\ MinPort <= config["port"].n
                         /\ config["port"].n <= MaxPort) -> "port"
      [] ~is_sqlite /\ BlankStr(config["username"]) -> "username"
      [] ~is_sqlite /\ ~IsStr(config["password"]) -> "password"
      [] OTHER -> "none"

\* (config, None), (None, missing_keys), or the ValueError a value raises
validate_requirements_keys(config) ==
    LET missing_keys == MissingKeys(config) IN
    IF missing_keys # <<>>
    THEN [raised |-> FALSE, valid |-> FALSE, missing_keys |-> missing_keys, field |-> "none"]
    ELSE IF ValueErrorField(config) # "none"
    THEN [raised |-> TRUE, valid |-> FALSE, missing_keys |-> <<>>,
          field |-> ValueErrorField(config)]
    ELSE [raised |-> FALSE, valid |-> TRUE, missing_keys |-> <<>>, field |-> "none"]

(***************************************************************************)
(* build_connection_url: config[key] raises KeyError for an absent key;    *)
(* the f-string reads the keys from left to right.                         *)
(***************************************************************************)
UrlKeysOf(config) ==
    IF Get(config, "dialect") = Str(sqlite)
    THEN <<"dialect", "database">>
    ELSE <<"dialect", "username", "password", "host", "port", "database">>

RECURSIVE AbsentAmong(_, _)
AbsentAmong(keys, config) ==
    IF keys = <<>> THEN <<>>
    ELSE (IF Has(config, Head(keys)) THEN <<>> ELSE <<Head(keys)>>)
         \o AbsentAmong(Tail(keys), config)

\* a sqlite URL with two slashes, as the URLs of the other dialects have
build_connection_url_two_slashes(config) ==
    LET absent == AbsentAmong(UrlKeysOf(config), config) IN
    IF absent # <<>> THEN [ok |-> FALSE, key |-> Head(absent), url |-> <<>>]
    ELSE IF Get(config, "dialect") = Str(sqlite)
    THEN [ok |-> TRUE, key |-> "none",
          url |-> Format(config["dialect"]) \o <<":", "/", "/">>
                  \o Format(config["database"])]
    ELSE [ok |-> TRUE, key |-> "none",
          url |-> Format(config["dialect"]) \o <<":", "/", "/">>
                  \o Format(config["username"]) \o <<":">> \o Format(config["password"])
                  \o <<"@">> \o Format(config["host"]) \o <<":">>
                  \o Format(config["port"]) \o <<"/">> \o Format(config["database"])]

build_connection_url(config) ==
    LET absent == AbsentAmong(UrlKeysOf(config), config) IN
    IF absent # <<>> THEN [ok |-> FALSE, key |-> Head(absent), url |-> <<>>]
    ELSE IF Get(config, "dialect") = Str(sqlite)
    THEN [ok |-> TRUE, key |-> "none",
          url |-> Format(config["dialect"]) \o <<":", "/", "/", "/">>
                  \o Format(config["database"])]
    ELSE [ok |-> TRUE, key |-> "none",
          url |-> Format(config["dialect"]) \o <<":", "/", "/">>
                  \o Format(config["username"]) \o <<":">> \o Format(config["password"])
                  \o <<"@">> \o Format(config["host"]) \o <<":">>
                  \o Format(config["port"]) \o <<"/">> \o Format(config["database"])]

(***************************************************************************)
(* The configurations the operations are called with: the valid ones of    *)
(* the tests, and those that differ from a valid one in one key, or in an  *)
(* absent key and a falsy value of another.                                *)
(***************************************************************************)
NameA == <<"a">>
NameB == <<"b">>
NameZ == <<"z">>
Blank == <<" ">>
oracle == <<"o", "r", "a", "c", "l", "e">>

SqliteConfig(name) ==
    [name |-> Str(name), dialect |-> Str(sqlite), database |-> Str(<<"d">>),
     username |-> Absent, password |-> Absent, host |-> Absent, port |-> Absent]

NetConfig(name, dialect) ==
    [name |-> Str(name), dialect |-> Str(dialect), database |-> Str(<<"d">>),
     username |-> Str(<<"u">>), password |-> Str(<<"p">>), host |-> Str(<<"h">>),
     port |-> Int_(3306)]

ValidConfigs ==
    {SqliteConfig(n) : n \in {NameA, NameB}}
    \cup {NetConfig(n, d) : n \in {NameA, NameB}, d \in {mysql_pymysql, postgresql}}

AbsentDeviations == {<<k, Absent>> : k \in Keys}

FalsyDeviations ==
    {<<k, Str(<<>>)>> : k \in Keys \ {"port"}} \cup {<<"port", Int_(0)>>}

OtherDeviations ==
    {<<k, Str(Blank)>> : k \in Keys \ {"port"}}
    \cup {<<"name", Int_(5)>>, <<"name", Str(<<" ", "a">>)>>,
          <<"dialect", Str(oracle)>>, <<"dialect", Str(sqlite)>>,
          <<"username", Int_(7)>>, <<"password", Int_(7)>>,
          <<"username", Str(<<"u">>)>>,
          <<"port", Int_(MinPort)>>, <<"port", Int_(MaxPort)>>,
          <<"port", Int_(MaxPort + 1)>>, <<"port", Int_(-1)>>,
          <<"port", Str(<<"8", "0">>)>>}

Deviations == AbsentDeviations \cup FalsyDeviations \cup OtherDeviations

With(config, d) == [config EXCEPT ![d[1]] = d[2]]

Configs ==
    ValidConfigs
    \cup {With(c, d) : c \in {SqliteConfig(NameA), NetConfig(NameA, mysql_pymysql)},
                       d \in Deviations}
    \cup {With(With(NetConfig(NameA, mysql_pymysql), d1), d2) :
             d1 \in AbsentDeviations, d2 \in FalsyDeviations}

\* the configurations of test_build_connection_url, which hold no name
TestUrlConfigs ==
    {[name |-> Absent, dialect |-> Str(sqlite),
      database |-> Str(<<":", "m", "e", "m", "o", "r", "y", ":">>),
      username |-> Absent, password |-> Absent, host |-> Absent, port |-> Absent],
     [name |-> Absent, dialect |-> Str(postgresql),
      database |-> Str(<<"d", "b">>), username |-> Str(<<"a", "d">>),
      password |-> Str(<<"p", "w">>), host |-> Str(<<"h">>), port |-> Int_(5432)]}

\* the configurations add_connection is given while the registry evolves
RegistryConfigs ==
    {SqliteConfig(NameA), NetConfig(NameA, mysql_pymysql), SqliteConfig(NameB),
     With(NetConfig(NameA, mysql_pymysql), <<"database", Absent>>),
     With(NetConfig(NameA, mysql_pymysql), <<"port", Int_(MaxPort + 1)>>),
     With(SqliteConfig(NameB), <<"dialect", Str(oracle)>>),
     With(NetConfig(NameA, mysql_pymysql), <<"host", Str(Blank)>>),
     With(NetConfig(NameA, mysql_pymysql), <<"password", Int_(MinPort)>>),
     With(NetConfig(NameA, mysql_pymysql), <<"username", Str(<<>>)>>)}

\* the configurations add_connection is given between the generator's calls
GenConfigs == {SqliteConfig(NameB)}

\* the configuration lists the constructor is given
InitConfigs == {SqliteConfig(NameA), NetConfig(NameB, mysql_pymysql)}

\* the names the lookups are called with
LookupNames == {NameA, NameB, NameZ}

RECURSIVE SeqsUpTo(_, _)
SeqsUpTo(S, n) ==
    IF n = 0 THEN {<<>>}
    ELSE SeqsUpTo(S, n - 1)
         \cup {Append(q, x) : q \in {r \in SeqsUpTo(S, n - 1) : Len(r) = n - 1}, x \in S}

(***************************************************************************)
(* The state: the manager's configs and connections (a dict, whose         *)
(* iteration order is the order of first insertion), the engines created   *)
(* so far and those disposed, the generator's history, and what the last   *)
(* call was given and what it gave back; where each of two threads calling *)
(* the registry stands; and the database the insertion engine writes to.   *)
(***************************************************************************)
VARIABLES configs, connections, nextEngine, disposed, history, last, threads, db

vars == <<configs, connections, nextEngine, disposed, history, last, threads, db>>

RegisteredNames(conns) == {conns[i].name : i \in DOMAIN conns}

IndexOf(conns, name) == CHOOSE i \in DOMAIN conns : conns[i].name = name

\* self.connections[name]
Lookup(conns, name) == conns[IndexOf(conns, name)]

RegisteredEngines(conns) == {conns[i].engine.id : i \in DOMAIN conns}

\* create_engine(url) and sessionmaker(bind=engine)
NewConnection(name, url, id) ==
    [name |-> name, engine |-> [id |-> id, url |-> url], session |-> [bind |-> id]]

\* a registry that holds the last connection only
SetItemReplacingAll(conns, entry) == <<entry>>

\* self.connections[name] = {...}: a key the dict holds keeps its place
SetItem(conns, entry) ==
    IF entry.name \in RegisteredNames(conns)
    THEN [conns EXCEPT ![IndexOf(conns, entry.name)] = entry]
    ELSE Append(conns, entry)

\* the constructor: add_connection for each configuration, in order
RECURSIVE Construct(_, _, _)
Construct(cfgs, conns, next) ==
    IF cfgs = <<>> THEN [connections |-> conns, nextEngine |-> next]
    ELSE Construct(Tail(cfgs),
                   SetItem(conns, NewConnection(Head(cfgs)["name"].s,
                                                build_connection_url(Head(cfgs)).url,
                                                next)),
                   next + 1)

\* the two callers of the registry's mutating operations, neither inside a call
IdleThreads ==
    [add |-> [pc |-> "idle", entry |-> NewConnection(<<>>, <<>>, 0)],
     close |-> [pc |-> "idle", used |-> 0, idx |-> 0, error |-> "none"]]

\* what insert has returned when it has not been called
NoOutcome == [kind |-> "none", plan |-> <<>>, table |-> "none", counts |-> {}, staged |-> {}]

\* the database the insertion engine writes to, before any schema is loaded
NoDatabase == [fks |-> {}, result |-> <<>>, rows |-> {}, outcome |-> NoOutcome]

Init ==
    /\ configs \in SeqsUpTo(InitConfigs, MaxInitConfigs)
    /\ connections = Construct(configs, <<>>, 1).connections
    /\ nextEngine = Construct(configs, <<>>, 1).nextEngine
    /\ disposed = {}
    /\ history = <<>>
    /\ last = [op |-> "init"]
    /\ threads = IdleThreads
    /\ db = NoDatabase

(***************************************************************************)
(* add_connection: a ValueError of the validation and an exception of      *)
(* create_engine leave the method (its only handler is for                 *)
(* subprocess.SubprocessError, which nothing in the try block raises);     *)
(* otherwise the new engine and its session factory are stored under       *)
(* config['name'], over whatever the name held.                            *)
(***************************************************************************)
\* a variant that stores the entry before the engine is created and leaves it
\* there when create_engine raises
AddConnectionStoresFirst(config, engine_fails) ==
    LET v == validate_requirements_keys(config) IN
    IF v.raised \/ ~v.valid
    THEN /\ last' = [op |-> "add_connection", config |-> config, outcome |-> "ValueError",
                     why |-> IF v.raised THEN "invalid_value" ELSE "missing_or_empty",
                     keys |-> IF v.raised THEN <<v.field>> ELSE v.missing_keys]
         /\ UNCHANGED <<configs, connections, nextEngine, disposed, history>>
    ELSE /\ nextEngine <= MaxEngines
         /\ connections' = SetItem(connections,
                                   NewConnection(config["name"].s,
                                                 build_connection_url(config).url,
                                                 nextEngine))
         /\ nextEngine' = nextEngine + 1
         /\ last' = [op |-> "add_connection", config |-> config,
                     outcome |-> IF engine_fails THEN "EngineError" ELSE "ok",
                     why |-> IF engine_fails THEN "create_engine" ELSE "none",
                     keys |-> <<>>]
         /\ UNCHANGED <<configs, disposed, history>>

AddConnection(config, engine_fails) ==
    LET v == validate_requirements_keys(config) IN
    IF v.raised
    THEN /\ last' = [op |-> "add_connection", config |-> config, outcome |-> "ValueError",
                     why |-> "invalid_value", keys |-> <<v.field>>]
         /\ UNCHANGED <<configs, connections, nextEngine, disposed, history>>
    ELSE IF ~v.valid
    THEN /\ last' = [op |-> "add_connection", config |-> config, outcome |-> "ValueError",
                     why |-> "missing_or_empty", keys |-> v.missing_keys]
         /\ UNCHANGED <<configs, connections, nextEngine, disposed, history>>
    ELSE IF engine_fails
    THEN /\ last' = [op |-> "add_connection", config |-> config, outcome |-> "EngineError",
                     why |-> "create_engine", keys |-> <<>>]
         /\ UNCHANGED <<configs, connections, nextEngine, disposed, history>>
    ELSE /\ nextEngine <= MaxEngines
         /\ connections' = SetItem(connections,
                                   NewConnection(config["name"].s,
                                                 build_connection_url(config).url,
                                                 nextEngine))
         /\ nextEngine' = nextEngine + 1
         /\ last' = [op |-> "add_connection", config |-> config, outcome |-> "ok",
                     why |-> "none", keys |-> <<>>]
         /\ UNCHANGED <<configs, disposed, history>>

(***************************************************************************)
(* get_session, get_engine                                                 *)
(***************************************************************************)
\* a lookup that answers for a name the registry does not hold
GetSessionUnchecked(name) ==
    /\ last' = [op |-> "get_session", name |-> name, outcome |-> "ok",
                value |-> IF name \in RegisteredNames(connections)
                          THEN Lookup(connections, name).session.bind ELSE 0]
    /\ UNCHANGED <<configs, connections, nextEngine, disposed, history>>

GetSession(name) ==
    /\ last' = IF name \notin RegisteredNames(connections)
               THEN [op |-> "get_session", name |-> name, outcome |-> "ConnectionNotFound",
                     value |-> 0]
               ELSE [op |-> "get_session", name |-> name, outcome |-> "ok",
                     value |-> Lookup(connections, name).session.bind]
    /\ UNCHANGED <<configs, connections, nextEngine, disposed, history>>

GetEngine(name) ==
    /\ last' = IF name \notin RegisteredNames(connections)
               THEN [op |-> "get_engine", name |-> name, outcome |-> "ConnectionNotFound",
                     value |-> 0]
               ELSE [op |-> "get_engine", name |-> name, outcome |-> "ok",
                     value |-> Lookup(connections, name).engine.id]
    /\ UNCHANGED <<configs, connections, nextEngine, disposed, history>>

(***************************************************************************)
(* close_all_connections: the engines are disposed in the dict's order;    *)
(* the first dispose() that raises ends the loop with a ValueError, and    *)
(* the clear() after the loop is not reached.                              *)
(***************************************************************************)
FirstFailing(conns, failing) ==
    IF \E i \in DOMAIN conns : conns[i].engine.id \in failing
    THEN CHOOSE i \in DOMAIN conns :
            /\ conns[i].engine.id \in failing
            /\ \A j \in 1..(i - 1) : conns[j].engine.id \notin failing
    ELSE 0

CloseAllConnections(failing) ==
    LET stop == FirstFailing(connections, failing) IN
    IF stop = 0
    THEN /\ disposed' = disposed \cup RegisteredEngines(connections)
         /\ connections' = <<>>
         /\ last' = [op |-> "close_all_connections", outcome |-> "ok",
                     before |-> RegisteredEngines(connections),
                     attempted |-> RegisteredEngines(connections), failing |-> failing]
         /\ UNCHANGED <<configs, nextEngine, history>>
    ELSE /\ disposed' = disposed \cup {connections[i].engine.id : i \in 1..(stop - 1)}
         /\ last' = [op |-> "close_all_connections", outcome |-> "ValueError",
                     before |-> RegisteredEngines(connections),
                     attempted |-> {connections[i].engine.id : i \in 1..stop},
                     failing |-> failing]
         /\ UNCHANGED <<configs, connections, nextEngine, history>>

(***************************************************************************)
(* build_connection_url, called as the static method it is                 *)
(***************************************************************************)
BuildConnectionUrl(config) ==
    /\ last' = [op |-> "build_connection_url", config |-> config,
                outcome |-> IF build_connection_url(config).ok THEN "ok" ELSE "KeyError",
                url |-> build_connection_url(config).url]
    /\ UNCHANGED <<configs, connections, nextEngine, disposed, history>>

(***************************************************************************)
(* get_config_by_name: the first configuration of self.configs, the list   *)
(* the constructor was given, that holds the name.                         *)
(***************************************************************************)
get_config_by_name(cfgs, name) ==
    IF \E i \in DOMAIN cfgs : Get(cfgs[i], "name") = Str(name)
    THEN [found |-> TRUE,
          config |-> cfgs[CHOOSE i \in DOMAIN cfgs :
                             /\ Get(cfgs[i], "name") = Str(name)
                             /\ \A j \in 1..(i - 1) : Get(cfgs[j], "name") # Str(name)]]
    ELSE [found |-> FALSE, config |-> Absent]

GetConfigByName(name) ==
    /\ last' = [op |-> "get_config_by_name", name |-> name,
                outcome |-> IF get_config_by_name(configs, name).found
                            THEN "ok" ELSE "ConfigurationNotFound",
                config |-> get_config_by_name(configs, name).config]
    /\ UNCHANGED <<configs, connections, nextEngine, disposed, history>>

(***************************************************************************)
(* The generator.  The texts (prompts, generated schema code, responses of *)
(* the service) are opaque; the tokenizer is a function of the text.       *)
(***************************************************************************)
Prompts == {"P1", "P2"}
SchemaTexts == {"S1"}
Responses == {"{\"t\": {\"atributos\": [\"c\"], \"valores\": [[1]]}}", "Desculpe, nao consigo."}

\* len(encoding.encode(msg)) for the texts of the model
TokensOf(text) ==
    CASE text = "content" -> 905
      [] text = "S1" -> 905
      [] text = "P1" -> 5
      [] text = "P2" -> 6

\* with 2855, the texts of the model leave 1000 tokens (P1) or 999 (P2)
MaxTokensValues == {DefaultMaxTokens, 2855}

\* what the collaborators do during one call: sqlacodegen fails or prints the
\* code; the tokenizer fails or counts; the service fails or answers
Scenarios ==
    {[schema |-> "fail", tokenizer_ok |-> FALSE, response |-> "fail"]}
    \cup {[schema |-> s, tokenizer_ok |-> FALSE, response |-> "fail"] : s \in SchemaTexts}
    \cup {[schema |-> s, tokenizer_ok |-> TRUE, response |-> r] :
             s \in SchemaTexts, r \in Responses \cup {"fail"}}

\* generate_models(db_name): the code sqlacodegen prints, or the error
generate_models(conns, cfgs, db_name, sc) ==
    IF db_name \notin RegisteredNames(conns) THEN [outcome |-> "ConnectionNotFound", code |-> "none"]
    ELSE IF ~get_config_by_name(cfgs, db_name).found
    THEN [outcome |-> "ConfigurationNotFound", code |-> "none"]
    ELSE IF ~build_connection_url(get_config_by_name(cfgs, db_name).config).ok
    THEN [outcome |-> "KeyError", code |-> "none"]
    ELSE IF sc.schema = "fail" THEN [outcome |-> "SchemaError", code |-> "none"]
    ELSE [outcome |-> "ok", code |-> sc.schema]

\* a variant that leaves the fixed overhead out of the remaining budget
ResTokensWithoutOverhead(max_tokens, database_structure_tokens, content_tokens, prompt_tokens) ==
    max_tokens - (database_structure_tokens + content_tokens + prompt_tokens)

\* max_tokens - (database_structure_tokens + content_tokens + prompt_tokens) - 40
ResTokens(max_tokens, database_structure_tokens, content_tokens, prompt_tokens) ==
    max_tokens - (database_structure_tokens + content_tokens + prompt_tokens) - Overhead

\* a check that lets a budget of 999 through
BelowMinimumOffByOne(res_tokens) == res_tokens < MinResponseTokens - 1

\* res_tokens < 1000
BelowMinimum(res_tokens) == res_tokens < MinResponseTokens

\* a key numbered from the entries held, not from the next one
GenKeyFromLen(hist) == <<"g", "e", "n">> \o IntToStr(Len(hist))

\* f'gen{len(self.history) + 1}'
GenKey(hist) == <<"g", "e", "n">> \o IntToStr(Len(hist) + 1)

HistoryKeys(hist) == {hist[i].key : i \in DOMAIN hist}

\* self.history[gen_key] = {'prompt': prompt, 'result': result}
HistorySet(hist, key, prompt, result) ==
    IF key \in HistoryKeys(hist)
    THEN [i \in DOMAIN hist |->
             IF hist[i].key = key THEN [key |-> key, prompt |-> prompt, result |-> result]
             ELSE hist[i]]
    ELSE Append(hist, [key |-> key, prompt |-> prompt, result |-> result])

\* a variant that lets every name through the first check
IsRegisteredAlways(conns, db_name) == TRUE

\* the check generate_data opens with: db_name in self.manager.connections
IsRegistered(conns, db_name) == db_name \in RegisteredNames(conns)

\* what a call that raises leaves behind: no service call, nothing returned
Failed(request, outcome, steps, tokens, res_tokens) ==
    [op |-> "generate_data", db_name |-> request.db_name, prompt |-> request.prompt,
     max_tokens |-> request.max_tokens, outcome |-> outcome, steps |-> steps,
     tokens |-> tokens, res_tokens |-> res_tokens, service_calls |-> 0, ceiling |-> 0,
     response |-> "none", result |-> "none"]

\* a variant that enters the prompt in the history before the service answers
GenerateDataRecordsFirst(db_name, prompt, max_tokens, sc) ==
    LET request == [db_name |-> db_name, prompt |-> prompt, max_tokens |-> max_tokens]
        models == generate_models(connections, configs, db_name, sc)
        database_structure_tokens == TokensOf(models.code)
        content_tokens == TokensOf("content")
        prompt_tokens == TokensOf(prompt)
        tokens == <<database_structure_tokens, content_tokens, prompt_tokens>>
        res_tokens == ResTokens(max_tokens, database_structure_tokens, content_tokens,
                                prompt_tokens)
    IN
    /\ UNCHANGED <<configs, connections, nextEngine, disposed>>
    /\ IF ~IsRegistered(connections, db_name)
       THEN /\ last' = Failed(request, "ConnectionNotFound", {}, <<>>, 0)
            /\ UNCHANGED history
       ELSE IF models.outcome # "ok"
       THEN /\ last' = Failed(request, models.outcome, {"schema"}, <<>>, 0)
            /\ UNCHANGED history
       ELSE IF ~sc.tokenizer_ok
       THEN /\ last' = Failed(request, "TokenizerError", {"schema", "tokens"}, <<>>, 0)
            /\ UNCHANGED history
       ELSE IF BelowMinimum(res_tokens)
       THEN /\ last' = Failed(request, "BudgetExceeded", {"schema", "tokens"}, tokens,
                              res_tokens)
            /\ UNCHANGED history
       ELSE IF sc.response = "fail"
       THEN /\ last' = [Failed(request, "ServiceError", {"schema", "tokens", "service"},
                               tokens, res_tokens)
                        EXCEPT !.service_calls = 1, !.ceiling = res_tokens]
            /\ Len(history) < MaxHistory
            /\ history' = HistorySet(history, GenKey(history), prompt, "none")
       ELSE /\ Len(history) < MaxHistory
            /\ history' = HistorySet(history, GenKey(history), prompt, sc.response)
            /\ last' = [op |-> "generate_data", db_name |-> db_name, prompt |-> prompt,
                        max_tokens |-> max_tokens, outcome |-> "ok",
                        steps |-> {"schema", "tokens", "service"}, tokens |-> tokens,
                        res_tokens |-> res_tokens, service_calls |-> 1,
                        ceiling |-> res_tokens, response |-> sc.response,
                        result |-> sc.response]

GenerateData(db_name, prompt, max_tokens, sc) ==
    LET request == [db_name |-> db_name, prompt |-> prompt, max_tokens |-> max_tokens]
        models == generate_models(connections, configs, db_name, sc)
        database_structure_tokens == TokensOf(models.code)
        content_tokens == TokensOf("content")
        prompt_tokens == TokensOf(prompt)
        tokens == <<database_structure_tokens, content_tokens, prompt_tokens>>
        res_tokens == ResTokens(max_tokens, database_structure_tokens, content_tokens,
                                prompt_tokens)
    IN
    /\ UNCHANGED <<configs, connections, nextEngine, disposed>>
    /\ IF ~IsRegistered(connections, db_name)
       THEN /\ last' = Failed(request, "ConnectionNotFound", {}, <<>>, 0)
            /\ UNCHANGED history
       ELSE IF models.outcome # "ok"
       THEN /\ last' = Failed(request, models.outcome, {"schema"}, <<>>, 0)
            /\ UNCHANGED history
       ELSE IF ~sc.tokenizer_ok
       THEN /\ last' = Failed(request, "TokenizerError", {"schema", "tokens"}, <<>>, 0)
            /\ UNCHANGED history
       ELSE IF BelowMinimum(res_tokens)
       THEN /\ last' = Failed(request, "BudgetExceeded", {"schema", "tokens"}, tokens,
                              res_tokens)
            /\ UNCHANGED history
       ELSE IF sc.response = "fail"
       THEN /\ last' = [Failed(request, "ServiceError", {"schema", "tokens", "service"},
                               tokens, res_tokens)
                        EXCEPT !.service_calls = 1, !.ceiling = res_tokens]
            /\ UNCHANGED history
       ELSE /\ Len(history) < MaxHistory
            /\ history' = HistorySet(history, GenKey(history), prompt, sc.response)
            /\ last' = [op |-> "generate_data", db_name |-> db_name, prompt |-> prompt,
                        max_tokens |-> max_tokens, outcome |-> "ok",
                        steps |-> {"schema", "tokens", "service"}, tokens |-> tokens,
                        res_tokens |-> res_tokens, service_calls |-> 1,
                        ceiling |-> res_tokens, response |-> sc.response,
                        result |-> sc.response]

(***************************************************************************)
(* The registry: any interleaving of the manager's operations.             *)
(***************************************************************************)
Next ==
    \/ \E config \in RegistryConfigs, engine_fails \in BOOLEAN :
          AddConnection(config, engine_fails) /\ UNCHANGED <<threads, db>>
    \/ \E name \in LookupNames : GetSession(name) /\ UNCHANGED <<threads, db>>
    \/ \E name \in LookupNames : GetEngine(name) /\ UNCHANGED <<threads, db>>
    \/ \E failing \in SUBSET RegisteredEngines(connections) :
          CloseAllConnections(failing) /\ UNCHANGED <<threads, db>>
    \/ \E name \in LookupNames : GetConfigByName(name) /\ UNCHANGED <<threads, db>>

Spec == Init /\ [][Next]_vars

(***************************************************************************)
(* The operations that depend on the configuration alone, on a manager     *)
(* built from an empty list: the caller holds one configuration of Configs *)
(* and calls add_connection and build_connection_url with it.              *)
(***************************************************************************)
InitConfig ==
    /\ configs = <<>>
    /\ connections = <<>>
    /\ nextEngine = 1
    /\ disposed = {}
    /\ history = <<>>
    /\ \E config \in Configs \cup TestUrlConfigs : last = [op |-> "init", config |-> config]
    /\ threads = IdleThreads
    /\ db = NoDatabase

NextConfig ==
    \/ \E engine_fails \in BOOLEAN :
          AddConnection(last.config, engine_fails) /\ UNCHANGED <<threads, db>>
    \/ BuildConnectionUrl(last.config) /\ UNCHANGED <<threads, db>>

SpecConfig == InitConfig /\ [][NextConfig]_vars

(***************************************************************************)
(* add_connection and close_all_connections called from two threads of one *)
(* manager.  Neither method takes a lock, so the threads interleave        *)
(* between the dictionary operations: the store of add_connection, and the *)
(* creation of the items iterator, each of its steps and the clear() of    *)
(* close_all_connections.                                                  *)
(***************************************************************************)
\* validation, create_engine and sessionmaker, on the thread's own locals
AddBegin(config, engine_fails) ==
    LET v == validate_requirements_keys(config) IN
    /\ threads.add.pc = "idle"
    /\ IF v.raised \/ ~v.valid \/ engine_fails
       THEN /\ threads' = [threads EXCEPT !.add.pc = "raised"]
            /\ UNCHANGED nextEngine
       ELSE /\ nextEngine <= MaxEngines
            /\ threads' = [threads EXCEPT
                              !.add.pc = "store",
                              !.add.entry = NewConnection(config["name"].s,
                                                          build_connection_url(config).url,
                                                          nextEngine)]
            /\ nextEngine' = nextEngine + 1
    /\ UNCHANGED <<configs, connections, disposed, history, last, db>>

\* self.connections[config['name']] = {...}
AddStore ==
    /\ threads.add.pc = "store"
    /\ connections' = SetItem(connections, threads.add.entry)
    /\ threads' = [threads EXCEPT !.add.pc = "done"]
    /\ UNCHANGED <<configs, nextEngine, disposed, history, last, db>>

\* the for statement creates the iterator over self.connections.items(), which
\* remembers the size of the dictionary
CloseBegin ==
    /\ threads.close.pc = "idle"
    /\ threads' = [threads EXCEPT !.close.pc = "iter",
                                  !.close.used = Len(connections),
                                  !.close.idx = 1]
    /\ UNCHANGED <<configs, connections, nextEngine, disposed, history, last, db>>

\* one step of the loop: the iterator raises RuntimeError when the dictionary
\* has changed size, ends after the last position, and otherwise yields the
\* entry now at its position, whose engine is disposed
CloseNext(dispose_fails) ==
    /\ threads.close.pc = "iter"
    /\ IF Len(connections) # threads.close.used
       THEN /\ threads' = [threads EXCEPT !.close.pc = "raised",
                                         !.close.error = "RuntimeError"]
            /\ UNCHANGED disposed
       ELSE IF threads.close.idx > Len(connections)
       THEN /\ threads' = [threads EXCEPT !.close.pc = "clear"]
            /\ UNCHANGED disposed
       ELSE IF dispose_fails
       THEN /\ threads' = [threads EXCEPT !.close.pc = "raised",
                                         !.close.error = "ValueError"]
            /\ UNCHANGED disposed
       ELSE /\ disposed' = disposed \cup {connections[threads.close.idx].engine.id}
            /\ threads' = [threads EXCEPT !.close.idx = @ + 1]
    /\ UNCHANGED <<configs, connections, nextEngine, history, last, db>>

\* self.connections.clear()
CloseClear ==
    /\ threads.close.pc = "clear"
    /\ connections' = <<>>
    /\ threads' = [threads EXCEPT !.close.pc = "done"]
    /\ UNCHANGED <<configs, nextEngine, disposed, history, last, db>>

NextConc ==
    \/ \E config \in RegistryConfigs, engine_fails \in BOOLEAN :
          AddBegin(config, engine_fails)
    \/ AddStore
    \/ CloseBegin
    \/ \E dispose_fails \in BOOLEAN : CloseNext(dispose_fails)
    \/ CloseClear

SpecConc == Init /\ [][NextConc]_vars

(***************************************************************************)
(* The generator on a manager that is given connections between the calls. *)
(***************************************************************************)
NextGen ==
    \/ \E db_name \in LookupNames, prompt \in Prompts, max_tokens \in MaxTokensValues,
          sc \in Scenarios :
          GenerateData(db_name, prompt, max_tokens, sc) /\ UNCHANGED <<threads, db>>
    \/ \E config \in GenConfigs, engine_fails \in BOOLEAN :
          AddConnection(config, engine_fails) /\ UNCHANGED <<threads, db>>

SpecGen == Init /\ [][NextGen]_vars

(***************************************************************************)
(* The insertion engine (DataHandler.insert), after section 4.5 of the     *)
(* specification: the table keys of the result are validated against the   *)
(* schema, the tables are ordered so that a table follows those it has a   *)
(* foreign key to, and the rows are inserted in that order inside one      *)
(* transaction, which is committed when every row went in and rolled back  *)
(* when one did not.  A table of the database is the number of its rows.   *)
(***************************************************************************)
customers == "customers"
orders == "orders"
items == "items"

\* the tables of the live schema
Tables == {customers, orders, items}

\* a table key the live schema does not hold
ghost == "ghost"

\* the foreign keys of the schemas inserted into, <<A, B>> for a key from A to B:
\* a chain, a chain whose head refers to itself, two tables that refer to each
\* other, and three tables in a ring
FKGraphs ==
    {{<<orders, customers>>, <<items, orders>>},
     {<<customers, customers>>, <<orders, customers>>, <<items, orders>>},
     {<<customers, orders>>, <<orders, customers>>, <<items, orders>>},
     {<<customers, orders>>, <<orders, items>>, <<items, customers>>}}

RangeOf(seq) == {seq[i] : i \in DOMAIN seq}

\* generation results: table keys in the order the mapping holds them, each
\* with the number of its rows
GenerationResults ==
    {r \in SeqsUpTo([table : Tables \cup {ghost}, rows : 1..MaxRowsPerTable], Cardinality(Tables)) :
        /\ r # <<>>
        /\ \A i, j \in DOMAIN r : i # j => r[i].table # r[j].table}

TableKeys(result) == [i \in DOMAIN result |-> result[i].table]

RowsOf(result, table) ==
    LET i == CHOOSE i \in DOMAIN result : result[i].table = table IN result[i].rows

\* a variant that takes a table's reference to itself for a dependency
DependsOnWithSelf(fks, present, table) == {B \in present : <<table, B>> \in fks}

\* the present tables a table must follow: those it has a foreign key to,
\* itself excepted
DependsOn(fks, present, table) == {B \in present : <<table, B>> \in fks /\ B # table}

Without(seq, i) == SubSeq(seq, 1, i - 1) \o SubSeq(seq, i + 1, Len(seq))

\* the topological order: of the tables not yet placed, the first in key order
\* whose dependencies are all placed comes next; when tables remain and none
\* can be placed, they hold a cycle
RECURSIVE InsertionPlan(_, _, _)
InsertionPlan(fks, pending, plan) ==
    LET present == RangeOf(pending) \cup RangeOf(plan)
        ready == {i \in DOMAIN pending :
                     DependsOn(fks, present, pending[i]) \subseteq RangeOf(plan)}
        first == CHOOSE i \in ready : \A j \in ready : i <= j
    IN IF pending = <<>> THEN [ok |-> TRUE, plan |-> plan]
       ELSE IF ready = {} THEN [ok |-> FALSE, plan |-> pending]
       ELSE InsertionPlan(fks, Without(pending, first), Append(plan, pending[first]))

\* where an insert statement may fail: the row-th row of the at-th table of
\* the plan, or nowhere (at = 0)
Failures ==
    [at : 0..Cardinality(Tables), row : 1..MaxRowsPerTable,
     cause : {"DatabaseError", "UnresolvedReference"}]

Fails(result, plan, failure) ==
    /\ failure.at \in DOMAIN plan
    /\ failure.row <= RowsOf(result, plan[failure.at])

\* the rows the open transaction has inserted when it ends: every row of every
\* table, or the rows before the one that failed
Staged(result, plan, failure) ==
    {<<plan[k], IF ~Fails(result, plan, failure) \/ k < failure.at
                THEN RowsOf(result, plan[k])
                ELSE IF k = failure.at THEN failure.row - 1 ELSE 0>> : k \in DOMAIN plan}

StagedIn(staged, table) ==
    IF \E e \in staged : e[1] = table THEN (CHOOSE e \in staged : e[1] = table)[2] ELSE 0

\* a variant that commits after each table
TransactionPerTable(rows, result, plan, failure) ==
    {<<t, StagedIn(rows, t)
          + (IF Fails(result, plan, failure) /\ t = plan[failure.at] THEN 0
             ELSE StagedIn(Staged(result, plan, failure), t))>> : t \in Tables}

\* the transaction around the whole plan: commit when no insert failed,
\* rollback when one did
Transaction(rows, result, plan, failure) ==
    IF Fails(result, plan, failure) THEN rows
    ELSE {<<t, StagedIn(rows, t) + StagedIn(Staged(result, plan, failure), t)>> : t \in Tables}

Insert(failure) ==
    LET result == db.result
        sorted == InsertionPlan(db.fks, TableKeys(result), <<>>)
        plan == sorted.plan
    IN
    /\ db.result # <<>>
    /\ IF \E i \in DOMAIN result : result[i].table \notin Tables
       THEN db' = [db EXCEPT !.outcome =
                      [NoOutcome EXCEPT
                          !.kind = "UnknownTable",
                          !.table = result[CHOOSE i \in DOMAIN result :
                                             /\ result[i].table \notin Tables
                                             /\ \A j \in 1..(i - 1) :
                                                   result[j].table \in Tables].table]]
       ELSE IF ~sorted.ok
       THEN db' = [db EXCEPT !.outcome =
                      [NoOutcome EXCEPT !.kind = "CyclicDependency", !.plan = plan]]
       ELSE IF Fails(result, plan, failure)
       THEN db' = [db EXCEPT
                      !.rows = Transaction(db.rows, result, plan, failure),
                      !.outcome = [kind |-> failure.cause, plan |-> plan,
                                   table |-> plan[failure.at], counts |-> {},
                                   staged |-> Staged(result, plan, failure)]]
       ELSE /\ \A t \in RangeOf(plan) : StagedIn(db.rows, t) + RowsOf(result, t) <= MaxStoredRows
            /\ db' = [db EXCEPT
                         !.rows = Transaction(db.rows, result, plan, failure),
                         !.outcome = [kind |-> "ok", plan |-> plan, table |-> "none",
                                      counts |-> Staged(result, plan, failure),
                                      staged |-> Staged(result, plan, failure)]]
    /\ UNCHANGED <<configs, connections, nextEngine, disposed, history, last, threads>>

\* a handler on the engine of a manager, a schema and a generation result
InitInsert ==
    /\ configs = <<>>
    /\ connections = <<>>
    /\ nextEngine = 1
    /\ disposed = {}
    /\ history = <<>>
    /\ last = [op |-> "init"]
    /\ threads = IdleThreads
    /\ \E fks \in FKGraphs, result \in GenerationResults :
          db = [fks |-> fks, result |-> result, rows |-> {<<t, 0>> : t \in Tables},
                outcome |-> NoOutcome]

NextInsert == \E failure \in Failures : Insert(failure)

SpecInsert == InitInsert /\ [][NextInsert]_vars

(***************************************************************************)
(*                          The claims                                     *)
(***************************************************************************)
Registered == RegisteredNames(connections)

EnginesCreated == 1..(nextEngine - 1)

\* a configuration every reading of the validation rules accepts
WellFormedConfig(c) ==
    /\ c["name"].t = "str" /\ Strip(c["name"].s) # <<>>
    /\ c["dialect"] \in {Str(sqlite), Str(mysql_pymysql), Str(postgresql)}
    /\ c["database"].t = "str" /\ Strip(c["database"].s) # <<>>
    /\ \/ c["dialect"] = Str(sqlite)
       \/ /\ \A k \in {"username", "password", "host"} :
                c[k].t = "str" /\ Strip(c[k].s) # <<>>
          /\ c["port"].t = "int" /\ c["port"].n \in 1..65535

C1_AfterCall ==
    /\ last.op = "add_connection" =>
          /\ WellFormedConfig(last.config) => last.outcome \in {"ok", "EngineError"}
          /\ last.outcome = "ok" =>
                /\ last.config["name"].s \in Registered
                /\ Lookup(connections, last.config["name"].s).engine.id = nextEngine - 1
    /\ \A i \in DOMAIN connections :
          /\ connections[i].engine.id \in EnginesCreated
          /\ connections[i].session.bind = connections[i].engine.id
          /\ \A j \in DOMAIN connections :
                i # j => /\ connections[i].name # connections[j].name
                         /\ connections[i].engine.id # connections[j].engine.id
    /\ (last.op \in {"get_session", "get_engine"} /\ last.name \in Registered) =>
          /\ last.outcome = "ok"
          /\ last.value # 0
          /\ last.value = Lookup(connections, last.name).engine.id

C1_KeptByOtherCalls ==
    \A n \in Registered :
       (last'.op \in {"get_session", "get_engine", "get_config_by_name"}
        \/ (last'.op = "add_connection" /\ last'.config["name"] # Str(n))) =>
          /\ n \in RegisteredNames(connections')
          /\ Lookup(connections', n) = Lookup(connections, n)

\* C1: after add_connection(config) returns for a configuration that passes
\* validation, config.name is registered; get_session and get_engine of a
\* registered name succeed with a non-null handle, the handles of two names are
\* distinct, and calls of add_connection on other names and lookups keep both.
C1_RegisteredAndDistinct == [][C1_AfterCall' /\ C1_KeptByOtherCalls]_vars

C1_Witness ==
    /\ last.op = "get_engine" /\ last.outcome = "ok" /\ last.name = NameB
    /\ {NameA, NameB} \subseteq Registered
    /\ Lookup(connections, NameA).engine.id # Lookup(connections, NameB).engine.id

\* the keys the claim's dialect rule requires
RequiredByDialect(c) ==
    IF c["dialect"] = Str(sqlite) THEN {"name", "dialect", "database"}
    ELSE {"name", "dialect", "database", "username", "password", "host", "port"}

LacksRequiredKey(c) == \E k \in RequiredByDialect(c) : c[k] = Absent

Range(seq) == {seq[i] : i \in DOMAIN seq}

\* C2 as stated: for a configuration that lacks a required key, add_connection
\* fails with the invalid-configuration error, and the keys the error names are
\* exactly the required keys the configuration does not hold.
C2_NamesExactlyAbsentKeys ==
    (last.op = "add_connection" /\ LacksRequiredKey(last.config)) =>
       /\ last.outcome = "ValueError" /\ last.why = "missing_or_empty"
       /\ Range(last.keys) = {k \in RequiredByDialect(last.config) : last.config[k] = Absent}

\* C2 as amended: for a configuration that lacks a required key, add_connection
\* fails with the invalid-configuration error, and the keys the error names are
\* exactly the required keys that are absent or hold an empty value ("" or 0).
C2_NamesAbsentOrEmptyKeys ==
    (last.op = "add_connection" /\ LacksRequiredKey(last.config)) =>
       /\ last.outcome = "ValueError" /\ last.why = "missing_or_empty"
       /\ Range(last.keys) =
             {k \in RequiredByDialect(last.config) :
                 last.config[k] \in {Absent, Str(<<>>), Int_(0)}}

C2_Witness ==
    /\ last.op = "add_connection" /\ last.outcome = "ValueError"
    /\ last.config["database"] = Absent /\ last.config["port"] = Int_(0)
    /\ Range(last.keys) = {"database", "port"}

\* C3 as stated: close_all_connections attempts to dispose every registered
\* engine, disposes those whose dispose() does not fail, and leaves the registry
\* empty, whether or not a dispose() fails.
C3_DisposesAllAndClears ==
    last.op = "close_all_connections" =>
       /\ connections = <<>>
       /\ last.attempted = last.before
       /\ (last.before \ last.failing) \subseteq disposed

\* C4 as stated: every engine that was ever created is registered or disposed.
C4_NoEngineDroppedUndisposed ==
    \A id \in EnginesCreated : id \in RegisteredEngines(connections) \/ id \in disposed

\* C5: with X, Y, Z the token counts of the instructions, the schema text and
\* the prompt and M = max_tokens, remaining = M - X - Y - Z - 40; whenever the
\* counts were taken and remaining < 1000, generate_data fails with the budget
\* error and the service is not invoked in that call.
C5_BudgetCheckedBeforeService ==
    (last.op = "generate_data" /\ last.tokens # <<>>) =>
       LET remaining == last.max_tokens - last.tokens[2] - last.tokens[1]
                        - last.tokens[3] - 40
       IN /\ last.res_tokens = remaining
          /\ remaining < 1000 =>
                /\ last.outcome = "BudgetExceeded"
                /\ last.service_calls = 0
                /\ "service" \notin last.steps

C5_Witness ==
    /\ last.op = "generate_data" /\ last.outcome = "BudgetExceeded"
    /\ last.res_tokens = 999 /\ last.service_calls = 0

GenLiteral ==
    <<(<<"g", "e", "n", "1">>), (<<"g", "e", "n", "2">>), (<<"g", "e", "n", "3">>),
      (<<"g", "e", "n", "4">>)>>

C6_KeysInSequence ==
    \A i \in DOMAIN history : i <= 4 => history[i].key = GenLiteral[i]

C6_Step ==
    IF last'.op = "generate_data" /\ last'.outcome = "ok"
    THEN /\ Len(history') = Len(history) + 1
         /\ \A i \in DOMAIN history : history'[i] = history[i]
         /\ history'[Len(history')].prompt = last'.prompt
         /\ history'[Len(history')].result = last'.result
    ELSE history' = history

\* C6: the history holds the keys gen1..genN in order; a successful generate_data
\* appends one entry with its prompt and result under the next key and changes no
\* entry stored before; no other step changes the history.
C6_HistoryAppendOnly == [][C6_KeysInSequence' /\ C6_Step]_vars

C6_Witness ==
    /\ Len(history) = 2
    /\ history[1].key = <<"g", "e", "n", "1">> /\ history[2].key = <<"g", "e", "n", "2">>
    /\ history[1].prompt = history[2].prompt /\ history[1].result = history[2].result

HasUrlKeys(c) ==
    IF c["dialect"] = Str(sqlite) THEN c["database"] # Absent
    ELSE \A k \in Keys \ {"name"} : c[k] # Absent

\* the text of a value in a URL
Text(v) == IF v.t = "int" THEN IntToStr(v.n) ELSE v.s

ExpectedUrl(c) ==
    IF c["dialect"] = Str(sqlite)
    THEN Text(c["dialect"]) \o <<":", "/", "/", "/">> \o Text(c["database"])
    ELSE Text(c["dialect"]) \o <<":", "/", "/">> \o Text(c["username"]) \o <<":">>
         \o Text(c["password"]) \o <<"@">> \o Text(c["host"]) \o <<":">>
         \o Text(c["port"]) \o <<"/">> \o Text(c["database"])

\* the URLs test_build_connection_url expects, spelled out
C7_TestUrls ==
    /\ last.config["database"] = Str(<<":", "m", "e", "m", "o", "r", "y", ":">>) =>
          last.url = <<"s", "q", "l", "i", "t", "e", ":", "/", "/", "/",
                       ":", "m", "e", "m", "o", "r", "y", ":">>
    /\ last.config["port"] = Int_(5432) =>
          last.url = <<"p", "o", "s", "t", "g", "r", "e", "s", "q", "l", ":", "/", "/",
                       "a", "d", ":", "p", "w", "@", "h", ":", "5", "4", "3", "2", "/",
                       "d", "b">>

\* C7: build_connection_url returns <dialect>:///<database> for sqlite and
\* <dialect>://<username>:<password>@<host>:<port>/<database> for every other
\* dialect, and changes neither the configuration nor the manager.
C7_UrlFormatAndPure ==
    [][last'.op = "build_connection_url" =>
          /\ last'.config = last.config
          /\ UNCHANGED <<configs, connections, nextEngine, disposed, history>>
          /\ HasUrlKeys(last'.config) =>
                /\ last'.outcome = "ok"
                /\ last'.url = ExpectedUrl(last'.config)
                /\ C7_TestUrls']_vars

C7_Witness ==
    /\ last.op = "build_connection_url" /\ last.outcome = "ok"
    /\ last.config["port"] = Int_(5432) /\ Len(last.url) = 28

\* C8: get_session and get_engine fail with the connection-not-found error for
\* every name the registry does not hold, and a lookup leaves the registry as
\* it was.
C8_LookupOfUnregisteredName ==
    [][last'.op \in {"get_session", "get_engine"} =>
          /\ UNCHANGED <<configs, connections, nextEngine, disposed, history>>
          /\ last'.name \notin Registered =>
                last'.outcome = "ConnectionNotFound"]_vars

C8_Witness ==
    /\ last.op = "get_session" /\ last.outcome = "ConnectionNotFound"
    /\ last.name = NameA
    /\ configs = <<SqliteConfig(NameA)>>
    /\ 1 \in disposed

RequiredStringFields(c) ==
    IF c["dialect"] = Str(sqlite) THEN {"name", "dialect", "database"}
    ELSE {"name", "dialect", "database", "username", "password", "host"}

EmptyAfterTrimming(v) == v.t = "str" /\ Strip(v.s) = <<>>

\* C9 as stated: add_connection rejects with the invalid-configuration error
\* every configuration in which a required string field is empty after trimming,
\* and registers none.
C9_BlankStringFieldRejected ==
    (/\ last.op = "add_connection"
     /\ \E k \in RequiredStringFields(last.config) : EmptyAfterTrimming(last.config[k])) =>
       last.outcome = "ValueError"

WellFormedResponses == {"{\"t\": {\"atributos\": [\"c\"], \"valores\": [[1]]}}"}

\* C10 as stated: when the text the service returns is not JSON of the
\* GenerationResult shape, generate_data fails with the malformed-output error,
\* does not return the text and does not record it in the history.
C10_MalformedOutputRejected ==
    (/\ last.op = "generate_data"
     /\ last.response # "none"
     /\ last.response \notin WellFormedResponses) =>
       /\ last.outcome = "MalformedGenerationOutput"
       /\ last.result = "none"
       /\ \A i \in DOMAIN history : history[i].result # last.response

\* C13: a generate_data call whose connection name is not registered fails with
\* the connection-not-found error before anything else: it extracts no schema,
\* counts no tokens, calls the generation service zero times, and the history
\* after the call is the history before it.
C13_UnregisteredNameFailsFirst ==
    [][(/\ last'.op = "generate_data"
        /\ last' # last
        /\ last'.db_name \notin {connections[i].name : i \in DOMAIN connections}) =>
          /\ last'.outcome = "ConnectionNotFound"
          /\ last'.steps = {}
          /\ last'.tokens = <<>>
          /\ last'.service_calls = 0
          /\ last'.result = "none"
          /\ history' = history]_vars

C13_Witness ==
    /\ last.op = "generate_data"
    /\ last.db_name = NameZ
    /\ last.outcome = "ConnectionNotFound"
    /\ Registered # {}
    /\ history # <<>>

\* C14: when generate_data calls the generation service it calls it once, and
\* the ceiling it passes is max_tokens - (schema + instruction + prompt tokens)
\* - 40, which is at least 1000 and below the caller's max_tokens.
C14_OneCallWithRemainingCeiling ==
    (/\ last.op = "generate_data"
     /\ last.service_calls > 0) =>
       /\ last.service_calls = 1
       /\ Len(last.tokens) = 3
       /\ last.ceiling = last.max_tokens
                           - (last.tokens[1] + last.tokens[2] + last.tokens[3]) - 40
       /\ last.ceiling >= 1000
       /\ last.ceiling < last.max_tokens

C14_Witness ==
    /\ last.op = "generate_data"
    /\ last.service_calls = 1
    /\ last.ceiling = 1000
    /\ last.max_tokens = 2855

\* C17: an add_connection call that raises, for whatever reason, leaves the
\* registry as it was: the same names, each with the same handle, also when the
\* rejected configuration carries a name that is already registered.
C17_FailedAddLeavesRegistry ==
    [][(/\ last'.op = "add_connection"
        /\ last'.outcome # "ok") =>
          /\ {connections'[i].name : i \in DOMAIN connections'}
                = {connections[i].name : i \in DOMAIN connections}
          /\ \A i \in DOMAIN connections, j \in DOMAIN connections' :
                connections'[j].name = connections[i].name => connections'[j] = connections[i]]_vars

C17_Witness ==
    /\ last.op = "add_connection"
    /\ last.outcome = "ValueError"
    /\ last.why = "invalid_value"
    /\ last.config["name"] = Str(NameA)
    /\ Registered = {NameA, NameB}

\* C16 as stated: for every name in the registry, get_config_by_name finds a
\* configuration, and it is the one the handle now registered under that name
\* was built from (its URL is the URL of the registered engine).
C16_ConfigOfEveryRegisteredName ==
    \A i \in DOMAIN connections :
        LET found == get_config_by_name(configs, connections[i].name) IN
        /\ found.found
        /\ build_connection_url(found.config).ok
        /\ build_connection_url(found.config).url = connections[i].engine.url

\* C18: a generate_data call that raises, for whatever reason, leaves the
\* history with the keys and entries it had before the call, and a call that
\* succeeds adds the entry whose key is gen<n+1> for a history of n entries.
C18_FailedCallLeavesHistory ==
    [][last'.op = "generate_data" =>
          IF last'.outcome # "ok"
          THEN history' = history
          ELSE \/ history' = history
               \/ /\ Len(history') = Len(history) + 1
                  /\ SubSeq(history', 1, Len(history)) = history
                  /\ history'[Len(history')].key = GenLiteral[Len(history) + 1]]_vars

C18_Witness ==
    /\ last.op = "generate_data"
    /\ last.outcome = "ServiceError"
    /\ Len(history) = 1
    /\ history[1].key = GenLiteral[1]

\* the registry the constructor built: self.configs is never written afterwards
StartConnections == Construct(configs, <<>>, 1).connections

\* close_all_connections run alone on a registry, the engines in failing being
\* those whose dispose() raises
SerialClose(conns, disp, failing) ==
    IF \A i \in DOMAIN conns : conns[i].engine.id \notin failing
    THEN [connections |-> <<>>,
          disposed |-> disp \cup {conns[i].engine.id : i \in DOMAIN conns},
          error |-> "none"]
    ELSE LET stop == CHOOSE i \in DOMAIN conns :
                        /\ conns[i].engine.id \in failing
                        /\ \A j \in 1..(i - 1) : conns[j].engine.id \notin failing
         IN [connections |-> conns,
             disposed |-> disp \cup {conns[i].engine.id : i \in 1..(stop - 1)},
             error |-> "ValueError"]

\* add_connection run alone on a registry
SerialAdd(conns) ==
    IF threads.add.pc = "raised" THEN conns
    ELSE IF \E i \in DOMAIN conns : conns[i].name = threads.add.entry.name
    THEN [i \in DOMAIN conns |->
             IF conns[i].name = threads.add.entry.name THEN threads.add.entry ELSE conns[i]]
    ELSE Append(conns, threads.add.entry)

Outcome == [connections |-> connections, disposed |-> disposed, error |-> threads.close.error]

BothReturned ==
    /\ threads.add.pc \in {"done", "raised"}
    /\ threads.close.pc \in {"done", "raised"}

\* C15 as stated: whatever the interleaving of one add_connection and one
\* close_all_connections on a manager, once both have returned the registry,
\* the disposed engines and the error of close_all_connections are those of
\* running the two one after the other in one of the two orders.
C15_OutcomeOfSomeSerialOrder ==
    BothReturned =>
       \E failing \in SUBSET (1..nextEngine) :
          \/ Outcome = SerialClose(SerialAdd(StartConnections), {}, failing)
          \/ LET closed == SerialClose(StartConnections, {}, failing)
             IN Outcome = [closed EXCEPT !.connections = SerialAdd(closed.connections)]

Stored(rows, table) == (CHOOSE e \in rows : e[1] = table)[2]

FailureKinds == {"UnknownTable", "CyclicDependency", "DatabaseError", "UnresolvedReference"}

\* C11: when an insert call fails, whichever row of whichever table failed,
\* every table holds afterwards the rows it held before the call, those fully
\* inserted before the failure included, and no counts are returned; when it
\* succeeds every table of the result has gained its rows and the counts
\* returned are those numbers.
C11_InsertIsAtomic ==
    [][/\ db'.outcome.kind \in FailureKinds =>
             /\ \A t \in Tables : Stored(db'.rows, t) = Stored(db.rows, t)
             /\ db'.outcome.counts = {}
       /\ db'.outcome.kind = "ok" =>
             \/ db' = db
             \/ /\ db'.outcome.counts
                      = {<<db.result[i].table, db.result[i].rows>> : i \in DOMAIN db.result}
                /\ \A t \in Tables :
                      Stored(db'.rows, t)
                        = Stored(db.rows, t)
                          + (IF \E i \in DOMAIN db.result : db.result[i].table = t
                             THEN (CHOOSE r \in RangeOf(db.result) : r.table = t).rows
                             ELSE 0)]_vars

\* a call that failed at the second table of its plan after the first went in
\* whole, on a database that holds the rows of an earlier call that succeeded
C11_Witness ==
    /\ db.outcome.kind = "DatabaseError"
    /\ Len(db.outcome.plan) > 1
    /\ db.outcome.table = db.outcome.plan[2]
    /\ \E e \in db.outcome.staged : e[1] = db.outcome.plan[1] /\ e[2] > 0
    /\ \A i \in DOMAIN db.result : Stored(db.rows, db.result[i].table) = db.result[i].rows

\* a cycle among the present tables: a set of them, each with a foreign key to
\* another of the set
GenuineCycle(fks, present) ==
    \E S \in SUBSET present :
        /\ S # {}
        /\ \A A \in S : \E B \in S : B # A /\ <<A, B>> \in fks

\* C12: whatever the order of the result's table keys, the cyclic-dependency
\* error is raised only when the present tables hold a genuine cycle, and
\* otherwise the plan holds each present table once, with B before A whenever
\* A has a foreign key to a different present table B; a table's reference to
\* itself constrains nothing.
C12_PlanIsTopologicalOrder ==
    LET present == {db.result[i].table : i \in DOMAIN db.result}
        plan == db.outcome.plan
    IN db.outcome.kind \notin {"none", "UnknownTable"} =>
          IF db.outcome.kind = "CyclicDependency"
          THEN GenuineCycle(db.fks, present)
          ELSE /\ Len(plan) = Cardinality(present)
               /\ {plan[i] : i \in DOMAIN plan} = present
               /\ \A i, j \in DOMAIN plan :
                     (i # j /\ <<plan[i], plan[j]>> \in db.fks) => j < i

C12_Witness ==
    /\ db.outcome.kind = "ok"
    /\ <<customers, customers>> \in db.fks
    /\ [i \in DOMAIN db.result |-> db.result[i].table] = <<items, orders, customers>>
    /\ db.outcome.plan = <<customers, orders, items>>

====
